---- MODULE Spec2Model ----
(***************************************************************************)
(* CSS selector builder of src/src/05-objects-tasks.js: the class          *)
(* SelectorCreator and the facade object cssSelectorBuilder.               *)
(*                                                                         *)
(* JavaScript strings are TLA+ strings (\o is string concatenation, "" is  *)
(* the only falsy string).  JavaScript objects live in `heap`, a sequence  *)
(* of records: a reference is an index into it, `new` appends a record.    *)
(***************************************************************************)
EXTENDS Integers, Sequences, FiniteSets, TLC

\* Number of calls (facade calls, combine, chained fragment calls and
\* stringify, successful or not) made in one run.
MaxCalls == 3

\* Fragment payloads handed to the fragment methods.
Values == {"", "a"}

\* Combinator tokens handed to combine.
Tokens == {"+", " "}

(***************************************************************************)
(* Errors.  error1 and error2 throw an Error carrying a fixed message; the *)
(* message identifies the error kind.                                      *)
(***************************************************************************)
NoError == "none"

error1 == "Element, id and pseudo-element should not occur more then one time inside the selector"

error2 == "Selector parts should be arranged in the following order: element, id, class, attribute, pseudo-class, pseudo-element"

\* The outcome of a method: the receiver after the call and the error
\* thrown ("none" when the method returned `this`).
Return(self) == [obj |-> self, err |-> NoError]

Throw(self, e) == [obj |-> self, err |-> e]

(***************************************************************************)
(* class SelectorCreator                                                   *)
(***************************************************************************)
availableLine ==
  <<"elementData", "idData", "classData", "attrData", "pseudoClassData", "pseudoElementData">>

\* constructor()
SelectorCreator ==
  [ idData            |-> "",
    elementData       |-> "",
    classData         |-> <<>>,
    attrData          |-> <<>>,
    pseudoClassData   |-> <<>>,
    pseudoElementData |-> <<>>,
    combinator        |-> "",
    selector          |-> "",
    line              |-> 0,
    availableLine     |-> availableLine ]

\* Array.prototype.join(''): the concatenation of the entries.
RECURSIVE join(_)
join(arr) == IF arr = <<>> THEN "" ELSE Head(arr) \o join(Tail(arr))

\* Array.prototype.push(x)
push(arr, x) == Append(arr, x)

id_threshold3(self, value) ==
  IF self.line > 3 THEN Throw(self, error2)
  ELSE IF self.idData # "" THEN Throw(self, error1)
  ELSE Return([self EXCEPT !.idData = "#" \o value, !.line = 2])

id_noOrderCheck(self, value) ==
  IF self.idData # "" THEN Throw(self, error1)
  ELSE Return([self EXCEPT !.idData = "#" \o value, !.line = 2])

id(self, value) ==
  IF self.line > 2 THEN Throw(self, error2)
  ELSE IF self.idData # "" THEN Throw(self, error1)
  ELSE Return([self EXCEPT !.idData = "#" \o value, !.line = 2])

element(self, value) ==
  IF self.line > 1 THEN Throw(self, error2)
  ELSE IF self.elementData # "" THEN Throw(self, error1)
  ELSE Return([self EXCEPT !.elementData = value, !.line = 1])

class_replace(self, value) ==
  IF self.line > 3 THEN Throw(self, error2)
  ELSE Return([self EXCEPT !.classData = <<"." \o value>>, !.line = 3])

class_pushFirst(self, value) ==
  IF self.line > 3 THEN Throw([self EXCEPT !.classData = push(@, "." \o value)], error2)
  ELSE Return([self EXCEPT !.classData = push(@, "." \o value), !.line = 3])

class(self, value) ==
  IF self.line > 3 THEN Throw(self, error2)
  ELSE Return([self EXCEPT !.classData = push(@, "." \o value), !.line = 3])

attr_validating(self, value) ==
  IF self.line > 4 THEN Throw(self, error2)
  ELSE IF value = "" THEN Throw(self, "Attribute selector should not be empty")
  ELSE Return([self EXCEPT !.attrData = push(@, "[" \o value \o "]"), !.line = 4])

attr_stage3(self, value) ==
  IF self.line > 4 THEN Throw(self, error2)
  ELSE Return([self EXCEPT !.attrData = push(@, "[" \o value \o "]"), !.line = 3])

attr(self, value) ==
  IF self.line > 4 THEN Throw(self, error2)
  ELSE Return([self EXCEPT !.attrData = push(@, "[" \o value \o "]"), !.line = 4])

pseudoClass_strict(self, value) ==
  IF self.line >= 5 THEN Throw(self, error2)
  ELSE Return([self EXCEPT !.pseudoClassData = push(@, ":" \o value), !.line = 5])

pseudoClass_intoAttr(self, value) ==
  IF self.line > 5 THEN Throw(self, error2)
  ELSE Return([self EXCEPT !.attrData = push(@, ":" \o value), !.line = 5])

pseudoClass(self, value) ==
  IF self.line > 5 THEN Throw(self, error2)
  ELSE Return([self EXCEPT !.pseudoClassData = push(@, ":" \o value), !.line = 5])

pseudoElement_push(self, value) ==
  IF self.line > 6 THEN Throw(self, error2)
  ELSE Return([self EXCEPT !.pseudoElementData = push(@, "::" \o value), !.line = 6])

pseudoElement(self, value) ==
  IF self.line > 6 THEN Throw(self, error2)
  ELSE IF Len(self.pseudoElementData) # 0 THEN Throw(self, error1)
  ELSE Return([self EXCEPT !.pseudoElementData = push(@, "::" \o value), !.line = 6])

setCombine(self, combinator, selector) ==
  Return([self EXCEPT !.combinator = combinator, !.selector = selector])

stringify_classesBeforeId(self) ==
  LET link  == self.combinator
      part1 == self.elementData \o join(self.classData) \o self.idData
      part2 == join(self.attrData) \o join(self.pseudoClassData)
      part3 == join(self.pseudoElementData) \o link
  IN  part1 \o part2 \o part3

stringify_firstPseudoElement(self) ==
  LET link  == self.combinator
      part1 == self.elementData \o self.idData \o join(self.classData)
      part2 == join(self.attrData) \o join(self.pseudoClassData)
      part3 == (IF Len(self.pseudoElementData) = 0 THEN "undefined"
                ELSE self.pseudoElementData[1]) \o link
  IN  part1 \o part2 \o part3

stringify(self) ==
  LET link  == self.combinator
      part1 == self.elementData \o self.idData \o join(self.classData)
      part2 == join(self.attrData) \o join(self.pseudoClassData)
      part3 == join(self.pseudoElementData) \o link
  IN  part1 \o part2 \o part3

(***************************************************************************)
(* The facade cssSelectorBuilder.  Its functions work on the heap and      *)
(* yield the heap after the call, the reference returned and the error     *)
(* thrown.                                                                 *)
(***************************************************************************)
\* new SelectorCreator(): the object gets the next free reference.
new(h) == Append(h, SelectorCreator)

\* The call r.m(...) with outcome res, on heap h.
Invoke(h, r, res) == [heap |-> [h EXCEPT ![r] = res.obj], ref |-> r, err |-> res.err]

cssSelectorBuilder_element(h, value) ==
  LET h1 == new(h) IN Invoke(h1, Len(h1), element(h1[Len(h1)], value))

cssSelectorBuilder_id(h, value) ==
  LET h1 == new(h) IN Invoke(h1, Len(h1), id(h1[Len(h1)], value))

cssSelectorBuilder_class_shared(h, value) ==
  IF Len(h) = 0
  THEN LET h1 == new(h) IN Invoke(h1, Len(h1), class(h1[Len(h1)], value))
  ELSE Invoke(h, 1, class(h[1], value))

cssSelectorBuilder_class(h, value) ==
  LET h1 == new(h) IN Invoke(h1, Len(h1), class(h1[Len(h1)], value))

cssSelectorBuilder_attr(h, value) ==
  LET h1 == new(h) IN Invoke(h1, Len(h1), attr(h1[Len(h1)], value))

cssSelectorBuilder_pseudoClass(h, value) ==
  LET h1 == new(h) IN Invoke(h1, Len(h1), pseudoClass(h1[Len(h1)], value))

cssSelectorBuilder_pseudoElement(h, value) ==
  LET h1 == new(h) IN Invoke(h1, Len(h1), pseudoElement(h1[Len(h1)], value))

combine_noSpaces(h, selector1, combinator, selector2) ==
  LET h1 == new(h)
  IN  Invoke(h1, Len(h1),
             element(h1[Len(h1)],
                     stringify(h[selector1]) \o combinator \o stringify(h[selector2])))

combine_onLeftOperand(h, selector1, combinator, selector2) ==
  Invoke(h, selector1,
         setCombine(h[selector1], " " \o combinator \o " " \o stringify(h[selector2]),
                    stringify(h[selector2])))

combine_trailer(h, selector1, combinator, selector2) ==
  LET h1 == new(h)
      h2 == Invoke(h1, Len(h1), element(h1[Len(h1)], stringify(h[selector1]))).heap
  IN  Invoke(h2, Len(h2),
             setCombine(h2[Len(h2)], " " \o combinator \o " " \o stringify(h[selector2]),
                        stringify(h[selector2])))

combine_swapped(h, selector1, combinator, selector2) ==
  LET h1 == new(h)
  IN  Invoke(h1, Len(h1),
             element(h1[Len(h1)],
                     stringify(h[selector2]) \o " " \o combinator \o " " \o stringify(h[selector1])))

combine(h, selector1, combinator, selector2) ==
  LET h1 == new(h)
  IN  Invoke(h1, Len(h1),
             element(h1[Len(h1)],
                     stringify(h[selector1]) \o " " \o combinator \o " " \o stringify(h[selector2])))

(***************************************************************************)
(* State.                                                                  *)
(*   heap  the SelectorCreator objects created so far                      *)
(*   log   history: per object, the successful fragment calls and the      *)
(*         setCombine calls made on it                                     *)
(*   comb  history: per object, the combine call that created it, if any   *)
(*   last  history: the call made last and its outcome (ret: the reference  *)
(*         it returned, 0 when it threw or returned a string)              *)
(*   calls history: the number of calls made so far                        *)
(***************************************************************************)
VARIABLES heap, log, comb, last, calls

vars == <<heap, log, comb, last, calls>>

Refs == 1..Len(heap)

NoComb ==
  [set |-> FALSE, left |-> 0, right |-> 0, token |-> "", leftStr |-> "", rightStr |-> "",
   leftLen |-> 0, rightLen |-> 0]

NoCall ==
  [op |-> "init", via |-> "init", target |-> 0, value |-> "", err |-> NoError,
   left |-> 0, right |-> 0, str |-> "", ret |-> 0]

\* One more call of the run.
Call ==
  /\ calls < MaxCalls
  /\ calls' = calls + 1

\* The history after a call with outcome res, logged as the fragment call
\* op(value).
Logged(res, op, value) ==
  [i \in 1..Len(res.heap) |->
     LET old == IF i <= Len(log) THEN log[i] ELSE <<>>
     IN  IF i = res.ref /\ res.err = NoError
         THEN Append(old, [op |-> op, value |-> value])
         ELSE old]

Kept(res) ==
  [i \in 1..Len(res.heap) |-> IF i <= Len(comb) THEN comb[i] ELSE NoComb]

Init ==
  /\ heap = <<>>
  /\ log = <<>>
  /\ comb = <<>>
  /\ last = NoCall
  /\ calls = 0

\* A call through the facade: cssSelectorBuilder.op(value).
Facade(op, value, res) ==
  /\ Call
  /\ heap' = res.heap
  /\ log' = Logged(res, op, value)
  /\ comb' = Kept(res)
  /\ last' = [NoCall EXCEPT !.op = op, !.via = "facade", !.target = res.ref,
                            !.value = value, !.err = res.err,
                            !.ret = IF res.err = NoError THEN res.ref ELSE 0]

FacadeElement == \E v \in Values : Facade("element", v, cssSelectorBuilder_element(heap, v))

FacadeId == \E v \in Values : Facade("id", v, cssSelectorBuilder_id(heap, v))

FacadeClass == \E v \in Values : Facade("class", v, cssSelectorBuilder_class(heap, v))

FacadeAttr == \E v \in Values : Facade("attr", v, cssSelectorBuilder_attr(heap, v))

FacadePseudoClass ==
  \E v \in Values : Facade("pseudoClass", v, cssSelectorBuilder_pseudoClass(heap, v))

FacadePseudoElement ==
  \E v \in Values : Facade("pseudoElement", v, cssSelectorBuilder_pseudoElement(heap, v))

\* The call cssSelectorBuilder.combine(a, c, b).
CombineOf(a, c, b) ==
  LET res == combine(heap, a, c, b)
      s   == stringify(heap[a]) \o " " \o c \o " " \o stringify(heap[b])
  IN  /\ heap' = res.heap
      /\ log' = Logged(res, "element", s)
      /\ comb' = [Kept(res) EXCEPT ![res.ref] =
                    [set |-> TRUE, left |-> a, right |-> b, token |-> c,
                     leftStr |-> stringify(heap[a]), rightStr |-> stringify(heap[b]),
                     leftLen |-> Len(log[a]), rightLen |-> Len(log[b])]]
      /\ last' = [NoCall EXCEPT !.op = "combine", !.via = "facade", !.target = res.ref,
                                !.value = c, !.err = res.err, !.left = a, !.right = b,
                                !.ret = IF res.err = NoError THEN res.ref ELSE 0]

\* cssSelectorBuilder.combine(a, c, b) on two selectors made before.
Combine ==
  \E a \in Refs, b \in Refs, c \in Tokens :
    /\ Call
    /\ CombineOf(a, c, b)

\* A chained call r.op(value) on a selector made before.
Method(r, op, value, out) ==
  LET res == Invoke(heap, r, out)
  IN  /\ Call
      /\ heap' = res.heap
      /\ log' = Logged(res, op, value)
      /\ comb' = comb
      /\ last' = [NoCall EXCEPT !.op = op, !.via = "method", !.target = r,
                                !.value = value, !.err = res.err,
                                !.ret = IF res.err = NoError THEN res.ref ELSE 0]

Element == \E r \in Refs, v \in Values : Method(r, "element", v, element(heap[r], v))

Id == \E r \in Refs, v \in Values : Method(r, "id", v, id(heap[r], v))

Class == \E r \in Refs, v \in Values : Method(r, "class", v, class(heap[r], v))

Attr == \E r \in Refs, v \in Values : Method(r, "attr", v, attr(heap[r], v))

PseudoClass == \E r \in Refs, v \in Values : Method(r, "pseudoClass", v, pseudoClass(heap[r], v))

PseudoElement ==
  \E r \in Refs, v \in Values : Method(r, "pseudoElement", v, pseudoElement(heap[r], v))

\* r.setCombine(combinator, selector) on a selector made before.  The method
\* only stores its arguments and nothing reads this.selector, so the
\* selector handed over is drawn from texts.
SetCombine ==
  \E r \in Refs, c \in Tokens, sel \in Values :
    Method(r, "setCombine", c, setCombine(heap[r], c, sel))

\* r.stringify() on a selector made before.
Stringify ==
  \E r \in Refs :
    /\ Call
    /\ heap' = heap
    /\ log' = log
    /\ comb' = comb
    /\ last' = [NoCall EXCEPT !.op = "stringify", !.via = "method", !.target = r,
                              !.str = stringify(heap[r])]

Next ==
  \/ FacadeElement
  \/ FacadeId
  \/ FacadeClass
  \/ FacadeAttr
  \/ FacadePseudoClass
  \/ FacadePseudoElement
  \/ Combine
  \/ Element
  \/ Id
  \/ Class
  \/ Attr
  \/ PseudoClass
  \/ PseudoElement
  \/ SetCombine
  \/ Stringify

Spec == Init /\ [][Next]_vars

(***************************************************************************)
(* Vocabulary of the properties.                                           *)
(***************************************************************************)
OrderError == error2

DuplicateError == error1

FragmentOps == {"element", "id", "class", "attr", "pseudoClass", "pseudoElement"}

SingletonOps == {"element", "id", "pseudoElement"}

MultiOps == {"class", "attr", "pseudoClass"}

Rank(op) ==
  CASE op = "element"       -> 1
    [] op = "id"            -> 2
    [] op = "class"         -> 3
    [] op = "attr"          -> 4
    [] op = "pseudoClass"   -> 5
    [] op = "pseudoElement" -> 6

\* The field of a singleton kind holds something.
Populated(b, op) ==
  CASE op = "element"       -> b.elementData # ""
    [] op = "id"            -> b.idData # ""
    [] op = "pseudoElement" -> b.pseudoElementData # <<>>

\* The sequence of a multi-valued kind.
Entries(b, op) ==
  CASE op = "class"       -> b.classData
    [] op = "attr"        -> b.attrData
    [] op = "pseudoClass" -> b.pseudoClassData

\* What a fragment of kind op and payload v is rendered as.
Fragment(op, v) ==
  CASE op = "element"       -> v
    [] op = "id"            -> "#" \o v
    [] op = "class"         -> "." \o v
    [] op = "attr"          -> "[" \o v \o "]"
    [] op = "pseudoClass"   -> ":" \o v
    [] op = "pseudoElement" -> "::" \o v

\* The fragments of kind op among the calls lg, in call order.
RECURSIVE FragmentsOf(_, _)
FragmentsOf(lg, op) ==
  IF lg = <<>> THEN ""
  ELSE (IF Head(lg).op = op THEN Fragment(op, Head(lg).value) ELSE "")
       \o FragmentsOf(Tail(lg), op)

\* The calls lg rendered in fixed kind order.
Rendered(lg) ==
  FragmentsOf(lg, "element") \o FragmentsOf(lg, "id") \o FragmentsOf(lg, "class")
  \o FragmentsOf(lg, "attr") \o FragmentsOf(lg, "pseudoClass")
  \o FragmentsOf(lg, "pseudoElement")

\* No setCombine call is among the calls lg.
OnlyFragments(lg) == \A k \in 1..Len(lg) : lg[k].op \in FragmentOps

CountOf(lg, op) == Cardinality({k \in 1..Len(lg) : lg[k].op = op})

IsPrefix(s, t) == Len(s) <= Len(t) /\ SubSeq(t, 1, Len(s)) = s

\* The call made by this step is the chained fragment call r.op(...).
ChainedFragmentCall == last'.via = "method" /\ last'.op \in FragmentOps

(***************************************************************************)
(* C1.  A chained fragment call whose rank is strictly lower than the      *)
(* builder's current stage fails with OrderError, whatever was called      *)
(* before (id after class, element after class, class after attr, ...).    *)
(***************************************************************************)
C1_LowerRankFailsWithOrderError ==
  [][ (ChainedFragmentCall /\ Rank(last'.op) < heap[last'.target].line)
        => last'.err = OrderError ]_vars

\* id, class, id: the third call is of lower rank than the stage and fails
\* with OrderError.
C1_Witness ==
  /\ last.via = "method" /\ last.op = "id" /\ last.err = OrderError
  /\ heap[last.target].line = 3
  /\ heap[last.target].idData # ""

(***************************************************************************)
(* C2.  No builder ever accepts two successful calls of the same singleton *)
(* kind (element, id, pseudoElement), whatever the values.                 *)
(***************************************************************************)
C2_SingletonsAcceptedOnce ==
  \A r \in Refs : \A op \in SingletonOps : CountOf(log[r], op) <= 1

(***************************************************************************)
(* C3.  As claimed: a chained call of a singleton kind whose field is      *)
(* already populated fails with DuplicateError whatever the stage is.      *)
(***************************************************************************)
C3_DuplicateWhateverTheStage ==
  [][ (ChainedFragmentCall /\ last'.op \in SingletonOps
       /\ Populated(heap[last'.target], last'.op))
        => last'.err = DuplicateError ]_vars

(***************************************************************************)
(* C3, amended.  A chained call of a singleton kind whose field is already *)
(* populated fails: with DuplicateError when the stage does not exceed the *)
(* kind's rank, with OrderError when it does.                              *)
(***************************************************************************)
C3_DuplicateUnlessOutOfOrder ==
  [][ (ChainedFragmentCall /\ last'.op \in SingletonOps
       /\ Populated(heap[last'.target], last'.op))
        => last'.err = IF heap[last'.target].line > Rank(last'.op)
                       THEN OrderError ELSE DuplicateError ]_vars

\* pseudoElement twice: the second call fails with DuplicateError.
C3_Witness ==
  /\ last.via = "method" /\ last.op = "pseudoElement" /\ last.err = DuplicateError
  /\ Populated(heap[last.target], "pseudoElement")
  /\ heap[last.target].line = 6

(***************************************************************************)
(* C4.  After any sequence of successful fragment calls with each          *)
(* singleton kind called at most once, stringify() is the concatenation in *)
(* fixed kind order element, #id, .class*, [attr]*, :pseudoClass*,         *)
(* ::pseudoElement, each multi-valued kind in call order.                  *)
(***************************************************************************)
C4_StringifyInKindOrder ==
  \A r \in Refs :
    (OnlyFragments(log[r]) /\ \A op \in SingletonOps : CountOf(log[r], op) <= 1)
      => stringify(heap[r]) = Rendered(log[r])

\* id('a').class('a').class('') renders '#a.a.'.
C4_Witness ==
  \E r \in Refs :
    /\ log[r] = << [op |-> "id", value |-> "a"], [op |-> "class", value |-> "a"],
                   [op |-> "class", value |-> ""] >>
    /\ stringify(heap[r]) = "#a.a."

(***************************************************************************)
(* C5.  combine(a, c, b).stringify() is a.stringify() + ' ' + c + ' ' +    *)
(* b.stringify() for any two selectors made before, compound or combined,  *)
(* and any token c; combine does not fail.                                 *)
(***************************************************************************)
C5_CombineRendersBothOperands ==
  [][ last'.op = "combine"
        => /\ last'.err = NoError
           /\ stringify(heap'[last'.target])
                = stringify(heap[last'.left]) \o " " \o last'.value \o " "
                  \o stringify(heap[last'.right]) ]_vars

\* A combination whose left operand is itself a combination and whose right
\* operand is a compound selector.
C5_Witness ==
  /\ last.op = "combine" /\ last.err = NoError
  /\ comb[last.left].set
  /\ ~comb[last.right].set
  /\ stringify(heap[last.target])
       = stringify(heap[last.left]) \o " " \o last.value \o " "
         \o stringify(heap[last.right])

(***************************************************************************)
(* C6.  Copy-on-combine: combine leaves every existing builder as it was,  *)
(* and as long as no fragment call is made on the combined builder itself  *)
(* its stringify() stays what it was right after combine, whatever is      *)
(* called on its operands afterwards.                                      *)
(***************************************************************************)
C6_CopyOnCombine ==
  [][ /\ last'.op = "combine" => \A i \in Refs : heap'[i] = heap[i]
      /\ \A r \in 1..Len(heap') :
           (comb'[r].set /\ Len(log'[r]) = 1)
             => stringify(heap'[r])
                  = comb'[r].leftStr \o " " \o comb'[r].token \o " " \o comb'[r].rightStr
    ]_vars

\* The left operand got another fragment after the combination was made.
C6_Witness ==
  \E r \in Refs :
    /\ comb[r].set /\ Len(log[r]) = 1
    /\ Len(log[comb[r].left]) > comb[r].leftLen
    /\ stringify(heap[comb[r].left]) # comb[r].leftStr
    /\ stringify(heap[r])
         = comb[r].leftStr \o " " \o comb[r].token \o " " \o comb[r].rightStr

(***************************************************************************)
(* C7.  As claimed: the combined builder behaves like a builder whose      *)
(* element is left.stringify() and whose trailer (the suffix stringify     *)
(* renders last) is ' ' + token + ' ' + right.stringify(): fragments added *)
(* to it are rendered before the trailer.                                  *)
(***************************************************************************)
\* The logged call c made on builder b; a call that throws leaves b.  The
\* log keeps the combinator of a setCombine call, not its selector.
Applied(b, c) ==
  CASE c.op = "element"       -> element(b, c.value).obj
    [] c.op = "id"            -> id(b, c.value).obj
    [] c.op = "class"         -> class(b, c.value).obj
    [] c.op = "attr"          -> attr(b, c.value).obj
    [] c.op = "pseudoClass"   -> pseudoClass(b, c.value).obj
    [] c.op = "pseudoElement" -> pseudoElement(b, c.value).obj
    [] c.op = "setCombine"    -> setCombine(b, c.value, "").obj

RECURSIVE Replayed(_, _)
Replayed(b, lg) == IF lg = <<>> THEN b ELSE Replayed(Applied(b, Head(lg)), Tail(lg))

\* The builder with element left.stringify() and the trailer.
WithTrailer(c) ==
  setCombine(element(SelectorCreator, c.leftStr).obj,
             " " \o c.token \o " " \o c.rightStr, c.rightStr).obj

C7_FragmentsBeforeTrailer ==
  \A r \in Refs :
    (comb[r].set /\ OnlyFragments(log[r]))
      => stringify(heap[r]) = stringify(Replayed(WithTrailer(comb[r]), Tail(log[r])))

(***************************************************************************)
(* C7, amended.  The combined builder carries the whole text               *)
(* left.stringify() + ' ' + token + ' ' + right.stringify() in its element *)
(* field at stage 1 and has no trailer: fragments added to it are rendered *)
(* after the right-hand selector.                                          *)
(***************************************************************************)
C7_FragmentsAfterRightOperand ==
  \A r \in Refs :
    (comb[r].set /\ OnlyFragments(log[r]))
      => /\ heap[r].combinator = ""
         /\ heap[r].elementData
              = comb[r].leftStr \o " " \o comb[r].token \o " " \o comb[r].rightStr
         /\ stringify(heap[r]) = heap[r].elementData \o Rendered(Tail(log[r]))

\* A combined builder that got a class afterwards.
C7_Witness ==
  \E r \in Refs :
    /\ comb[r].set
    /\ Len(log[r]) = 2 /\ log[r][2].op = "class"
    /\ stringify(heap[r])
         = comb[r].leftStr \o " " \o comb[r].token \o " " \o comb[r].rightStr
           \o "." \o log[r][2].value

(***************************************************************************)
(* C8.  Every facade call yields a builder that did not exist before, and  *)
(* no call changes any builder other than the one it is made on.           *)
(***************************************************************************)
C8_BuildersShareNothing ==
  [][ /\ last'.via = "facade"
           => last'.target = Len(heap) + 1 /\ Len(heap') = Len(heap) + 1
      /\ \A i \in Refs :
           i # last'.target
             => heap'[i] = heap[i] /\ stringify(heap'[i]) = stringify(heap[i]) ]_vars

\* A fragment is added to the first of several builders.
C8_Witness ==
  /\ Len(heap) >= 2
  /\ last.via = "method" /\ last.op \in FragmentOps /\ last.err = NoError
  /\ last.target = 1
  /\ Len(log[1]) = 2

(***************************************************************************)
(* C9.  stringify() never fails, leaves every builder as it is, returns    *)
(* the same string when called twice in a row, and returns the empty       *)
(* string on a builder in which nothing is set.                            *)
(***************************************************************************)
Unset(b) ==
  /\ b.elementData = "" /\ b.idData = ""
  /\ b.classData = <<>> /\ b.attrData = <<>>
  /\ b.pseudoClassData = <<>> /\ b.pseudoElementData = <<>>
  /\ b.combinator = ""

C9_StringifyIsPure ==
  [][ last'.op = "stringify"
        => /\ last'.err = NoError
           /\ heap' = heap
           /\ (last.op = "stringify" /\ last.target = last'.target)
                => last'.str = last.str
           /\ Unset(heap[last'.target]) => last'.str = "" ]_vars

\* stringify() on a builder made by element('').
C9_Witness ==
  /\ last.op = "stringify" /\ last.err = NoError
  /\ Unset(heap[last.target])
  /\ last.str = ""

(***************************************************************************)
(* C10.  class, attr and pseudoClass are append-only: a call of such a     *)
(* kind at the stage of its own rank succeeds and appends its fragment at  *)
(* the end of the kind's sequence, and no call removes, changes or         *)
(* reorders the entries stored before.                                     *)
(***************************************************************************)
C10_MultiValuedAppendOnly ==
  [][ /\ \A i \in Refs : \A op \in MultiOps :
           IsPrefix(Entries(heap[i], op), Entries(heap'[i], op))
      /\ (ChainedFragmentCall /\ last'.op \in MultiOps
          /\ heap[last'.target].line = Rank(last'.op))
           => /\ last'.err = NoError
              /\ Entries(heap'[last'.target], last'.op)
                   = Append(Entries(heap[last'.target], last'.op),
                            Fragment(last'.op, last'.value)) ]_vars

\* class('a').class(''): both classes are stored, in call order.
C10_Witness ==
  /\ last.via = "method" /\ last.op = "class" /\ last.err = NoError
  /\ heap[last.target].classData = <<".a", ".">>

(***************************************************************************)
(* C11.  The stage of a builder never decreases, whatever is called and    *)
(* whether it succeeds; right after a successful fragment call it is the   *)
(* rank of that call, and in every state it is the highest rank among the  *)
(* fragment calls the builder accepted so far.                             *)
(***************************************************************************)
RECURSIVE HighestRank(_)
HighestRank(lg) ==
  IF lg = <<>> THEN 0
  ELSE LET h == IF Head(lg).op \in FragmentOps THEN Rank(Head(lg).op) ELSE 0
           t == HighestRank(Tail(lg))
       IN  IF h > t THEN h ELSE t

C11_StageMonotone ==
  [][ /\ \A i \in Refs : heap'[i].line >= heap[i].line
      /\ (last'.op \in FragmentOps /\ last'.err = NoError)
           => heap'[last'.target].line = Rank(last'.op)
      /\ \A i \in 1..Len(heap') : heap'[i].line = HighestRank(log'[i]) ]_vars

\* id, then class, then a failing id: the stage went 2, 3 and stays 3.
C11_Witness ==
  /\ last.via = "method" /\ last.op = "id" /\ last.err # NoError
  /\ Len(log[last.target]) = 2
  /\ log[last.target][1].op = "id" /\ log[last.target][2].op = "class"
  /\ heap[last.target].line = 3

(***************************************************************************)
(* C12.  Acceptance: a chained fragment call whose rank is at least the    *)
(* builder's stage and, for a singleton kind, whose field is not yet       *)
(* populated, raises nothing and returns the builder it was called on; so  *)
(* does a call that keeps the chain's ranks non-decreasing and is the      *)
(* chain's first call of its singleton kind.  A facade fragment call is    *)
(* always accepted.                                                        *)
(***************************************************************************)
Acceptable(b, op) ==
  /\ Rank(op) >= b.line
  /\ op \in SingletonOps => ~Populated(b, op)

C12_Acceptance ==
  [][ /\ (ChainedFragmentCall /\ Acceptable(heap[last'.target], last'.op))
           => last'.err = NoError /\ last'.ret = last'.target
      /\ (ChainedFragmentCall
          /\ Rank(last'.op) >= HighestRank(log[last'.target])
          /\ (last'.op \in SingletonOps => CountOf(log[last'.target], last'.op) = 0))
           => last'.err = NoError /\ last'.ret = last'.target
      /\ (last'.via = "facade" /\ last'.op \in FragmentOps)
           => last'.err = NoError /\ last'.ret = last'.target ]_vars

\* A chain of non-decreasing ranks with a repeated multi-valued kind:
\* pseudoClass, pseudoClass, pseudoElement.
C12_Witness ==
  /\ last.via = "method" /\ last.op = "pseudoElement" /\ last.err = NoError
  /\ last.ret = last.target
  /\ Len(heap[last.target].pseudoClassData) = 2

(***************************************************************************)
(* C13.  A call either succeeds or fails with DuplicateError or with       *)
(* OrderError, never with anything else; combine and stringify never       *)
(* fail; a successful fragment call stores its payload as given, behind    *)
(* the mark of its kind, whatever the payload is.                          *)
(***************************************************************************)
\* What builder b holds for the fragment call op made last.
StoredLast(b, op) ==
  CASE op = "element"       -> b.elementData
    [] op = "id"            -> b.idData
    [] op = "pseudoElement" -> b.pseudoElementData[Len(b.pseudoElementData)]
    [] OTHER                -> Entries(b, op)[Len(Entries(b, op))]

C13_OnlyTwoErrorKinds ==
  /\ last.err \in {NoError, DuplicateError, OrderError}
  /\ last.op \in {"combine", "stringify"} => last.err = NoError
  /\ (last.op \in FragmentOps /\ last.err = NoError)
       => StoredLast(heap[last.target], last.op) = Fragment(last.op, last.value)

\* attr('') on an existing builder is accepted and stored as '[]'.
C13_Witness ==
  /\ last.via = "method" /\ last.op = "attr" /\ last.value = "" /\ last.err = NoError
  /\ StoredLast(heap[last.target], "attr") = "[]"
  /\ Len(log[last.target]) = 2

(***************************************************************************)
(* C14.  A chained fragment call that fails leaves the builder, and every  *)
(* other builder, exactly as it was: fields, stage and stringify().        *)
(***************************************************************************)
C14_FailedCallChangesNothing ==
  [][ (ChainedFragmentCall /\ last'.err # NoError)
        => /\ heap' = heap
           /\ log' = log
           /\ stringify(heap'[last'.target]) = stringify(heap[last'.target]) ]_vars

\* class('a').attr('a') followed by a failing class call: the builder still
\* renders '.a[a]'.
C14_Witness ==
  /\ last.via = "method" /\ last.op = "class" /\ last.err = OrderError
  /\ heap[last.target].classData = <<".a">>
  /\ stringify(heap[last.target]) = ".a[a]"

(***************************************************************************)
(* C15.  In every reachable state the fields of all fragment kinds of a    *)
(* rank above the builder's stage are empty; a fresh builder has stage 0   *)
(* and every field empty.                                                  *)
(***************************************************************************)
\* What builder b holds for the fragment kind op.
FieldOf(b, op) ==
  CASE op = "element"       -> b.elementData
    [] op = "id"            -> b.idData
    [] op = "class"         -> b.classData
    [] op = "attr"          -> b.attrData
    [] op = "pseudoClass"   -> b.pseudoClassData
    [] op = "pseudoElement" -> b.pseudoElementData

FieldEmpty(b, op) ==
  IF op \in {"element", "id"} THEN FieldOf(b, op) = "" ELSE FieldOf(b, op) = <<>>

C15_NothingAboveStage ==
  /\ SelectorCreator.line = 0
  /\ \A op \in FragmentOps : FieldEmpty(SelectorCreator, op)
  /\ \A r \in Refs : \A op \in FragmentOps :
       Rank(op) > heap[r].line => FieldEmpty(heap[r], op)

\* element('a').class(..).attr(..): stage 4, the fields of pseudoClass and
\* pseudoElement are empty, those of element, class and attr are not.
C15_Witness ==
  \E r \in Refs :
    /\ heap[r].line = 4
    /\ ~FieldEmpty(heap[r], "element")
    /\ ~FieldEmpty(heap[r], "class")
    /\ ~FieldEmpty(heap[r], "attr")
    /\ FieldEmpty(heap[r], "pseudoClass") /\ FieldEmpty(heap[r], "pseudoElement")

(***************************************************************************)
(* C16.  A successful fragment call changes only the field of its own kind *)
(* and the stage: the fields of the five other kinds, the combinator and   *)
(* the selector are as before, and stringify() is what it was before with  *)
(* the new fragment added: behind the fragments there were (nothing of a   *)
(* higher rank being set) and in front of the combinator, which stringify  *)
(* renders last.                                                           *)
(***************************************************************************)
\* What stringify renders of builder b in front of its combinator.
Core(b) == stringify([b EXCEPT !.combinator = ""])

C16_OnlyOwnFieldChanges ==
  [][ (last'.op \in FragmentOps /\ last'.err = NoError)
        => LET before == IF last'.via = "facade" THEN SelectorCreator
                         ELSE heap[last'.target]
               after  == heap'[last'.target]
           IN  /\ \A op \in FragmentOps \ {last'.op} :
                    FieldOf(after, op) = FieldOf(before, op)
               /\ after.combinator = before.combinator
               /\ after.selector = before.selector
               /\ after.availableLine = before.availableLine
               /\ stringify(before) = Core(before) \o before.combinator
               /\ stringify(after)
                    = Core(before) \o Fragment(last'.op, last'.value)
                        \o before.combinator
    ]_vars

\* element('a').setCombine('+', s).id('a'): the last call turns 'a+' into
\* 'a#a+'.
C16_Witness ==
  /\ last.via = "method" /\ last.op = "id" /\ last.err = NoError
  /\ heap[last.target].elementData = "a"
  /\ heap[last.target].combinator = "+"
  /\ stringify(heap[last.target]) = "a#a+"

(***************************************************************************)
(* C18.  On every builder reached through the facade, its chained fragment *)
(* methods and combine (setCombine, which none of them invokes, was never  *)
(* called on it), the combinator and selector fields are empty, as the     *)
(* constructor left them, so the suffix that stringify appends from the    *)
(* combinator field is empty; a builder just made by combine holds the     *)
(* whole combined text in its element field, at stage 1, with every other  *)
(* field empty.                                                            *)
(***************************************************************************)
C18_CombinatorNeverSet ==
  \A r \in Refs :
    /\ stringify(heap[r]) = Core(heap[r]) \o heap[r].combinator
    /\ OnlyFragments(log[r])
         => /\ heap[r].combinator = ""
            /\ heap[r].selector = ""
            /\ stringify(heap[r]) = Core(heap[r])
    /\ (comb[r].set /\ Len(log[r]) = 1)
         => /\ heap[r].line = 1
            /\ heap[r].combinator = ""
            /\ heap[r].elementData
                 = comb[r].leftStr \o " " \o comb[r].token \o " " \o comb[r].rightStr
            /\ \A op \in FragmentOps \ {"element"} : FieldEmpty(heap[r], op)
            /\ stringify(heap[r]) = heap[r].elementData

\* element('a'), its combination with itself, then setCombine on the operand:
\* the operand renders 'a+', the combination is as combine left it.
C18_Witness ==
  \E r \in Refs :
    /\ comb[r].set /\ Len(log[r]) = 1
    /\ heap[r].line = 1 /\ heap[r].combinator = ""
    /\ stringify(heap[r]) = heap[r].elementData
    /\ last.op = "setCombine" /\ last.target = comb[r].left
    /\ heap[comb[r].left].combinator = "+"
    /\ stringify(heap[comb[r].left]) = "a+"

(***************************************************************************)
(* Nested combinations.  Three selectors a, b, c (references 1, 2, 3) made *)
(* through the facade are combined both ways with tokens t1 and t2:        *)
(*     x  = combine(b, t2, c)      r1 = combine(a, t1, x)                  *)
(*     y  = combine(a, t1, b)      r2 = combine(y, t2, c)                  *)
(* The four calls get the references 4 (x), 5 (r1), 6 (y) and 7 (r2).      *)
(***************************************************************************)
\* The call chains that make the operands: every single facade call, one
\* chain through all six kinds, and one that ends with setCombine.
OperandChains ==
  { << [op |-> o, value |-> v] >> : o \in FragmentOps, v \in Values }
  \cup
  { << [op |-> "element", value |-> "a"], [op |-> "id", value |-> "a"],
       [op |-> "class", value |-> "a"], [op |-> "class", value |-> ""],
       [op |-> "attr", value |-> "a"], [op |-> "pseudoClass", value |-> "a"],
       [op |-> "pseudoElement", value |-> "a"] >>,
    << [op |-> "element", value |-> "a"], [op |-> "setCombine", value |-> "+"] >> }

InitAssoc ==
  /\ \E la \in OperandChains, lb \in OperandChains, lc \in OperandChains :
       /\ heap = << Replayed(SelectorCreator, la), Replayed(SelectorCreator, lb),
                    Replayed(SelectorCreator, lc) >>
       /\ log = <<la, lb, lc>>
  /\ comb = <<NoComb, NoComb, NoComb>>
  /\ last = NoCall
  /\ calls = 0

\* The n-th call of the four: combine(a, c, b).
AssocStep(n, a, c, b) ==
  /\ calls = n - 1
  /\ calls' = n
  /\ CombineOf(a, c, b)

RightInner == \E t2 \in Tokens : AssocStep(1, 2, t2, 3)

RightOuter == \E t1 \in Tokens : AssocStep(2, 1, t1, 4)

LeftInner == AssocStep(3, 1, comb[5].token, 2)

LeftOuter == AssocStep(4, 6, comb[4].token, 3)

NextAssoc ==
  \/ RightInner
  \/ RightOuter
  \/ LeftInner
  \/ LeftOuter

SpecAssoc == InitAssoc /\ [][NextAssoc]_vars

(***************************************************************************)
(* C17.  Nested combinations render associatively:                         *)
(* combine(a, t1, combine(b, t2, c)) and combine(combine(a, t1, b), t2, c) *)
(* both render a + ' ' + t1 + ' ' + b + ' ' + t2 + ' ' + c.                *)
(***************************************************************************)
C17_CombineAssociative ==
  calls = 4
    => /\ stringify(heap[5]) = stringify(heap[7])
       /\ stringify(heap[5])
            = stringify(heap[1]) \o " " \o comb[5].token \o " " \o stringify(heap[2])
              \o " " \o comb[4].token \o " " \o stringify(heap[3])

\* a is a chain through all six kinds, b and c differ, and so do the tokens.
C17_Witness ==
  /\ calls = 4
  /\ Len(log[1]) = 7
  /\ stringify(heap[2]) # stringify(heap[3])
  /\ comb[5].token # comb[4].token
  /\ comb[7].left = 6 /\ comb[7].right = 3 /\ comb[5].left = 1 /\ comb[5].right = 4
  /\ stringify(heap[5]) = stringify(heap[7])

====
